---- MODULE Spec2Model ----
(***************************************************************************)
(* A model of publish-conda-stack (src/src/publish_conda_stack): the main  *)
(* loop over the selected recipes, the per-recipe pipeline                 *)
(* build_and_upload_recipe (platform filter, checkout, render, search,     *)
(* build, upload), the run report, and the pure helpers the pipeline uses. *)
(* Python strings are TLA+ strings; Python lists and tuples are sequences. *)
(***************************************************************************)
EXTENDS Integers, Sequences, FiniteSets, TLC

VARIABLES
    selected_recipe_specs,  \* main: the list returned by parse_specs
    shared_config,          \* main: the shared configuration
    PLATFORM_STR,           \* conda_bld_config.platform
    idx,                    \* main: position of the for loop (1-based)
    pc,                     \* where the process is
    status,                 \* main: the last value returned by build_and_upload_recipe
    c_pkg_names,            \* build_and_upload_recipe: the rendered identity tuple
    packages_found,         \* build_and_upload_recipe: the existence records
    result,                 \* main: the run report in memory
    disk,                   \* the report file as last written
    calls,                  \* the external steps performed so far, in order
    cwd,                    \* the working directory of the process
    environ,                \* os.environ
    build_environment,      \* build_and_upload_recipe: the environment of render and build
    input,                  \* the arguments of a function checked on its own
    output                  \* its result

vars == <<selected_recipe_specs, shared_config, PLATFORM_STR, idx, pc, status,
          c_pkg_names, packages_found, result, disk, calls,
          cwd, environ, build_environment,
          input, output>>

----------------------------------------------------------------------------
(* Bounds *)

MaxRecipes == 2
MaxSpecs == 3
MaxSelected == 2
MaxIdentities == 2
MaxRecords == 2
MaxLines == 3
MaxChannels == 2
MaxLabels == 2

----------------------------------------------------------------------------
(* Strings *)

\* Python: sub in s
Contains(s, sub) ==
    \E i \in 1..(Len(s) - Len(sub) + 1) : SubSeq(s, i, i + Len(sub) - 1) = sub

\* the first position at or after i where sub occurs in s, 0 when there is none
IndexOf(s, sub, i) ==
    LET at == {j \in i..(Len(s) - Len(sub) + 1) : SubSeq(s, j, j + Len(sub) - 1) = sub}
    IN IF at = {} THEN 0 ELSE CHOOSE j \in at : \A k \in at : j <= k

RECURSIVE ReplaceFrom(_, _, _, _)
ReplaceFrom(s, old, new, i) ==
    LET j == IndexOf(s, old, i)
    IN IF j = 0
       THEN SubSeq(s, i, Len(s))
       ELSE SubSeq(s, i, j - 1) \o new \o ReplaceFrom(s, old, new, j + Len(old))

\* Python: s.replace(old, new), old non-empty: leftmost non-overlapping occurrences
Replace(s, old, new) == ReplaceFrom(s, old, new, 1)

RECURSIVE Join(_, _)
\* Python: sep.join(parts)
Join(sep, parts) ==
    IF parts = <<>> THEN ""
    ELSE IF Len(parts) = 1 THEN parts[1]
    ELSE parts[1] \o sep \o Join(sep, Tail(parts))

Range(seq) == {seq[i] : i \in DOMAIN seq}

SeqsUpTo(S, n) == UNION {[1..k -> S] : k \in 0..n}

----------------------------------------------------------------------------
(* Values *)

\* Canonical Conda Package Name
CCPkgName(package_name, version, build_string) ==
    [package_name |-> package_name, version |-> version, build_string |-> build_string]

NoFile == [written |-> FALSE]

NoStatus == [kind |-> "none"]

EmptyResult == [found |-> <<>>, built |-> <<>>, errors |-> <<>>, skipped |-> <<>>,
                ended |-> FALSE]

NoInput == [fn |-> "none"]

NoOutput == [fn |-> "none"]

Error(type, cmd) == [type |-> type, cmd |-> cmd]

----------------------------------------------------------------------------
(* util.py *)

\* labels_to_upload_string: "--label a --label b"
labels_to_upload_string(label_list) ==
    Join(" ", [i \in 1..Len(label_list) |-> "--label " \o label_list[i]])

FirstLabelOnly(destination_channel, label_list) ==
    IF label_list = <<>> THEN <<>>
    ELSE <<"--channel", destination_channel \o "/label/" \o Head(label_list)>>

RECURSIVE labels_to_search_args(_, _)
\* labels_to_search_args: ["--channel", "ch/label/a", "--channel", "ch/label/b"]
labels_to_search_args(destination_channel, label_list) ==
    IF label_list = <<>> THEN <<>>
    ELSE <<"--channel", destination_channel \o "/label/" \o Head(label_list)>>
            \o labels_to_search_args(destination_channel, Tail(label_list))

\* the characters of the class [a-zA-Z0-9\-]
LabelChars ==
    LET cs == "abcdefghijklmnopqrstuvwxyzABCDEFGHIJKLMNOPQRSTUVWXYZ0123456789-"
    IN {SubSeq(cs, i, i) : i \in 1..Len(cs)}

\* strip_label: the search for "/label/<label>" at the end of the string, then
\* channel_string.split("/label/<label>")[0]
strip_label(channel_string) ==
    LET s == channel_string
        starts == {p \in 1..(Len(s) - 7) :
                     /\ SubSeq(s, p, p + 6) = "/label/"
                     /\ \A k \in (p + 7)..Len(s) : SubSeq(s, k, k) \in LabelChars}
    IN IF starts = {}
       THEN [channel |-> s, has_label |-> FALSE, label |-> ""]
       ELSE LET p == CHOOSE q \in starts : \A r \in starts : q <= r
                label == SubSeq(s, p + 7, Len(s))
                cut == IndexOf(s, "/label/" \o label, 1)
            IN [channel |-> SubSeq(s, 1, cut - 1), has_label |-> TRUE, label |-> label]

----------------------------------------------------------------------------
(* cmdutil.py *)

DEFAULT_BACKEND == "conda"

\* Python: d.get(key, default); a key whose value is None is a key left out
Get(d, key, default) == IF key \in DOMAIN d THEN d[key] ELSE default

AnyBackend(backend) == TRUE

\* backend in ["conda", "mamba"]
KnownBackend(backend) == backend \in {"conda", "mamba"}

BuildArgsByBackend(backend) == <<backend, "build">>

\* the first words of the build command
BuildArgs(backend) ==
    IF backend = "mamba" THEN <<"conda", "mambabuild">> ELSE <<backend>> \o <<"build">>

conda_cmd_base(command, config) ==
    LET variant_config == Get(config, "master-conda-build-config", "")
        variant_args == IF variant_config # "" THEN <<"-m", variant_config>> ELSE <<>>
        backend == Get(config, "backend", DEFAULT_BACKEND)
    IN IF command = "RENDER"
       THEN [raised |-> FALSE, error |-> "",
             args |-> <<"conda">> \o <<"render", "--output">>
                         \o config["conda-source-channel-list"] \o variant_args]
       ELSE IF ~KnownBackend(backend)
       THEN [raised |-> TRUE, error |-> "ValueError", args |-> <<>>]
       ELSE IF command = "SEARCH"
       THEN [raised |-> FALSE, error |-> "",
             args |-> <<backend>>
                         \o <<"search", "--json", "--full-name", "--override-channels",
                              "--channel", config["upload-channel"]>>
                         \o labels_to_search_args(config["upload-channel"],
                                                  Get(config, "labels", <<>>))]
       ELSE IF command = "BUILD"
       THEN [raised |-> FALSE, error |-> "",
             args |-> BuildArgs(backend)
                         \o config["conda-source-channel-list"] \o variant_args]
       ELSE [raised |-> TRUE, error |-> "ValueError", args |-> <<>>]

----------------------------------------------------------------------------
(* core.py: check_already_exists *)

SearchSignature == "following packages are not available from current channels"

RECURSIVE FoundInByBuild(_, _)
FoundInByBuild(records, c_pkg_name) ==
    IF records = <<>> THEN FALSE
    ELSE IF Head(records).build = c_pkg_name.build_string
         THEN TRUE
         ELSE FoundInByBuild(Tail(records), c_pkg_name)

RECURSIVE FoundIn(_, _)
\* the inner loop over search_results[package_name]
FoundIn(records, c_pkg_name) ==
    IF records = <<>> THEN FALSE
    ELSE IF /\ Head(records).build = c_pkg_name.build_string
            /\ Head(records).version = c_pkg_name.version
         THEN TRUE
         ELSE FoundIn(Tail(records), c_pkg_name)

RecoveredAlways(so) == so.exit # 0

\* the except branch: the known zero-result failure of the search tool
Recovered(so) == so.exit # 0 /\ Contains(so.output, SearchSignature)

\* so: what subprocess.check_output(search_cmd) gave: the exit code, the
\* captured output text and, for exit code 0, the parsed JSON object (a function
\* from the package names it has to their lists of records).
check_already_exists(pkg_names, so) ==
    IF pkg_names = <<>>
    THEN [raised |-> TRUE, error |-> "IndexError", searched |-> FALSE, value |-> <<>>]
    ELSE
      LET package_name == pkg_names[1].package_name
          recovered == Recovered(so)
      IN IF so.exit # 0 /\ ~recovered
         THEN [raised |-> TRUE, error |-> "CalledProcessError", searched |-> TRUE,
               value |-> <<>>]
         ELSE
           LET search_results == IF recovered THEN <<>> ELSE so.json
           IN IF package_name \notin DOMAIN search_results
              THEN [raised |-> FALSE, error |-> "", searched |-> TRUE,
                    value |-> [i \in 1..Len(pkg_names) |-> <<pkg_names[i], FALSE>>]]
              ELSE [raised |-> FALSE, error |-> "", searched |-> TRUE,
                    value |-> [i \in 1..Len(pkg_names) |->
                        <<pkg_names[i],
                          FoundIn(search_results[package_name], pkg_names[i])>>]]

----------------------------------------------------------------------------
(* core.py: upload_package *)

BUILD_PKG_DIR == "/bld"
ARCH == "64"
TokenRemoved == "<token-string removed>"

pkg_file_name(c) ==
    c.package_name \o "-" \o c.version \o "-" \o c.build_string \o ".tar.bz2"

ArchPath(platform, c) ==
    BUILD_PKG_DIR \o "/" \o platform \o "-" \o ARCH \o "/" \o pkg_file_name(c)

NoarchPath(c) == BUILD_PKG_DIR \o "/" \o "noarch" \o "/" \o pkg_file_name(c)

ResolveFirstOnly(pkg_names, platform, fs) ==
    IF pkg_names = <<>> THEN [raised |-> FALSE, paths |-> <<>>]
    ELSE
      LET c == Head(pkg_names)
          first == ArchPath(platform, c)
          pkg_file_path == IF first \notin fs THEN NoarchPath(c) ELSE first
      IN IF pkg_file_path \notin fs
         THEN [raised |-> TRUE, paths |-> <<>>]
         ELSE [raised |-> FALSE, paths |-> <<pkg_file_path>>]

RECURSIVE ResolveFound(_, _, _)
ResolveFound(pkg_names, platform, fs) ==
    IF pkg_names = <<>> THEN [raised |-> FALSE, paths |-> <<>>]
    ELSE
      LET c == Head(pkg_names)
          first == ArchPath(platform, c)
          pkg_file_path == IF first \notin fs THEN NoarchPath(c) ELSE first
          rest == ResolveFound(Tail(pkg_names), platform, fs)
      IN IF pkg_file_path \notin fs
         THEN rest
         ELSE [raised |-> FALSE, paths |-> <<pkg_file_path>> \o rest.paths]

RECURSIVE ResolvePaths(_, _, _)
\* the loop that fills package_paths; fs is the set of paths that exist
ResolvePaths(pkg_names, platform, fs) ==
    IF pkg_names = <<>> THEN [raised |-> FALSE, paths |-> <<>>]
    ELSE
      LET c == Head(pkg_names)
          first == ArchPath(platform, c)
          pkg_file_path == IF first \notin fs THEN NoarchPath(c) ELSE first
      IN IF pkg_file_path \notin fs
         THEN [raised |-> TRUE, paths |-> <<>>]
         ELSE LET rest == ResolvePaths(Tail(pkg_names), platform, fs)
              IN IF rest.raised THEN rest
                 ELSE [raised |-> FALSE, paths |-> <<pkg_file_path>> \o rest.paths]

UploadCmdWithoutSkip(config, package_paths) ==
    "anaconda " \o config.token_string \o " upload -u "
        \o config.upload_channel \o " " \o labels_to_upload_string(config.labels)
        \o " " \o Join(" ", package_paths)

UploadCmd(config, package_paths) ==
    "anaconda " \o config.token_string \o " upload --skip-existing -u "
        \o config.upload_channel \o " " \o labels_to_upload_string(config.labels)
        \o " " \o Join(" ", package_paths)

NotRedactedCmd(config, cmd) == cmd

\* the except branch: the command text of the error that is re-raised
RedactedCmd(config, cmd) ==
    IF config.token_string # ""
    THEN Replace(cmd, config.token_string, TokenRemoved)
    ELSE cmd

\* fs: the files that exist; exit: the exit code of the upload invocation
upload_package(pkg_names, config, platform, fs, exit) ==
    LET resolved == ResolvePaths(pkg_names, platform, fs)
    IN IF resolved.raised
       THEN [raised |-> TRUE, error |-> "RuntimeError", invoked |-> FALSE,
             package_paths |-> <<>>, cmd |-> "", error_cmd |-> ""]
       ELSE LET upload_cmd == UploadCmd(config, resolved.paths)
            IN IF exit # 0
               THEN [raised |-> TRUE, error |-> "CalledProcessError", invoked |-> TRUE,
                     package_paths |-> resolved.paths, cmd |-> upload_cmd,
                     error_cmd |-> RedactedCmd(config, upload_cmd)]
               ELSE [raised |-> FALSE, error |-> "", invoked |-> TRUE,
                     package_paths |-> resolved.paths, cmd |-> upload_cmd,
                     error_cmd |-> ""]

----------------------------------------------------------------------------
(* core.py: get_rendered_version *)

ArchiveSuffix == ".tar.bz2"

IsSpaceUnix(ch) == ch \in {" ", "\n", "\t"}

IsSpace(ch) == ch \in {" ", "\n", "\r", "\t"}

\* Python: s.split(): the maximal runs of non-whitespace characters, in order
Split(s) ==
    LET starts == {i \in 1..Len(s) :
                     /\ ~IsSpace(SubSeq(s, i, i))
                     /\ i = 1 \/ IsSpace(SubSeq(s, i - 1, i - 1))}
        EndOf(i) == CHOOSE j \in i..Len(s) :
                      /\ \A k \in i..j : ~IsSpace(SubSeq(s, k, k))
                      /\ j = Len(s) \/ IsSpace(SubSeq(s, j + 1, j + 1))
    IN [k \in 1..Cardinality(starts) |->
          LET i == CHOOSE i \in starts : Cardinality({j \in starts : j < i}) = k - 1
          IN SubSeq(s, i, EndOf(i))]

\* Python: s.endswith(suffix)
EndsWith(s, suffix) ==
    /\ Len(s) >= Len(suffix)
    /\ SubSeq(s, Len(s) - Len(suffix) + 1, Len(s)) = suffix

\* the last position of ch in s at or before upto, 0 when there is none
LastIndexOf(s, ch, upto) ==
    LET at == {i \in 1..upto : SubSeq(s, i, i) = ch}
    IN IF at = {} THEN 0 ELSE CHOOSE i \in at : \A j \in at : j <= i

\* Path(x).name: the last component of the path
PathName(x) == SubSeq(x, LastIndexOf(x, "/", Len(x)) + 1, Len(x))

\* the first position of ch in s at or after from, 0 when there is none
FirstIndexOf(s, ch, from) ==
    LET at == {i \in from..Len(s) : SubSeq(s, i, i) = ch}
    IN IF at = {} THEN 0 ELSE CHOOSE i \in at : \A j \in at : i <= j

LSplit2(s) ==
    LET j1 == FirstIndexOf(s, "-", 1)
        j2 == IF j1 = 0 THEN 0 ELSE FirstIndexOf(s, "-", j1 + 1)
    IN IF j1 = 0 THEN <<s>>
       ELSE IF j2 = 0 THEN <<SubSeq(s, 1, j1 - 1), SubSeq(s, j1 + 1, Len(s))>>
       ELSE <<SubSeq(s, 1, j1 - 1), SubSeq(s, j1 + 1, j2 - 1), SubSeq(s, j2 + 1, Len(s))>>

\* Python: s.rsplit("-", maxsplit=2)
RSplit2(s) ==
    LET j2 == LastIndexOf(s, "-", Len(s))
        j1 == LastIndexOf(s, "-", j2 - 1)
    IN IF j2 = 0 THEN <<s>>
       ELSE IF j1 = 0 THEN <<SubSeq(s, 1, j2 - 1), SubSeq(s, j2 + 1, Len(s))>>
       ELSE <<SubSeq(s, 1, j1 - 1), SubSeq(s, j1 + 1, j2 - 1), SubSeq(s, j2 + 1, Len(s))>>

rendered_filenames(subprocess_output) ==
    SelectSeq(Split(subprocess_output), LAMBDA x : EndsWith(x, ArchiveSuffix))

FilenameParts(x) == RSplit2(Replace(PathName(x), ArchiveSuffix, ""))

AnyNamed(package_name, name_version_builds) ==
    \E i \in 1..Len(name_version_builds) :
        name_version_builds[i].package_name = package_name

\* all(x.package_name == package_name for x in name_version_builds)
AllNamed(package_name, name_version_builds) ==
    \A i \in 1..Len(name_version_builds) :
        name_version_builds[i].package_name = package_name

\* render: the exit code and the output text of the render invocation
get_rendered_version(package_name, render) ==
    IF render.exit # 0
    THEN [raised |-> TRUE, error |-> "CalledProcessError", value |-> <<>>]
    ELSE
      LET names == rendered_filenames(render.output)
      IN IF \E i \in 1..Len(names) : Len(FilenameParts(names[i])) # 3
         THEN [raised |-> TRUE, error |-> "TypeError", value |-> <<>>]
         ELSE
           LET name_version_builds ==
                 [i \in 1..Len(names) |->
                    LET parts == FilenameParts(names[i])
                    IN CCPkgName(parts[1], parts[2], parts[3])]
           IN IF ~AllNamed(package_name, name_version_builds)
              THEN [raised |-> TRUE, error |-> "RuntimeError", value |-> <<>>]
              ELSE [raised |-> FALSE, error |-> "", value |-> name_version_builds]

----------------------------------------------------------------------------
(* core.py: get_selected_specs *)

Names(recipe_specs) == [i \in 1..Len(recipe_specs) |-> recipe_specs[i].name]

\* Python: names.index(name), 1-based; name is in names
Index(names, name) ==
    CHOOSE i \in 1..Len(names) :
        /\ names[i] = name
        /\ \A j \in 1..(i - 1) : names[j] # name

SliceAfterStart(full_recipe_specs, start_from) ==
    SubSeq(full_recipe_specs, Index(Names(full_recipe_specs), start_from) + 1,
           Len(full_recipe_specs))

\* full_recipe_specs[available_recipe_names.index(args.start_from) : :]
SliceFromStart(full_recipe_specs, start_from) ==
    SubSeq(full_recipe_specs, Index(Names(full_recipe_specs), start_from),
           Len(full_recipe_specs))

\* args: [start_from, selected_recipes]; exited is sys.exit
get_selected_specs(args, full_recipe_specs) ==
    LET available_recipe_names == Names(full_recipe_specs)
    IN IF /\ args.start_from # ""
          /\ args.start_from \notin Range(available_recipe_names)
       THEN [exited |-> TRUE, value |-> <<>>]
       ELSE
         LET from_start == IF args.start_from # ""
                           THEN SliceFromStart(full_recipe_specs, args.start_from)
                           ELSE full_recipe_specs
         IN IF args.selected_recipes = <<>>
            THEN [exited |-> FALSE, value |-> from_start]
            ELSE
              LET invalid_names ==
                    Range(args.selected_recipes) \ Range(available_recipe_names)
              IN IF invalid_names # {}
                 THEN [exited |-> TRUE, value |-> <<>>]
                 ELSE [exited |-> FALSE,
                       value |-> SelectSeq(from_start,
                           LAMBDA spec : spec.name \in Range(args.selected_recipes))]

----------------------------------------------------------------------------
(* The inputs of a run *)

\* a value of the specs file or of the environment: its YAML type and its text
EnvValue(type, repr) == [type |-> type, repr |-> repr]

\* a recipe spec without the optional environment key
RecipeSpec(name, has_build_on, build_on) ==
    [name |-> name, has_build_on |-> has_build_on, build_on |-> build_on,
     recipe_repo |-> "https://github.com/ilastik/" \o name \o "-recipe.git",
     has_environment |-> FALSE, environment |-> <<>>]

\* recipe a overrides a variable of the process with a number and adds one
RecipeSpecs ==
    { [RecipeSpec("a", FALSE, <<>>) EXCEPT
          !.has_environment = TRUE,
          !.environment = ("CPU_COUNT" :> EnvValue("int", "4"))
                             @@ ("EXTRA" :> EnvValue("str", "x"))],
      RecipeSpec("b", TRUE, <<"osx", "win">>) }

\* the environment the process is started with
AmbientEnviron ==
    ("PATH" :> EnvValue("str", "/usr/bin")) @@ ("CPU_COUNT" :> EnvValue("str", "1"))

\* parse_specs: repo-cache-dir, taken relative to the directory of the specs file
repo_cache_dir(specs_dir, configured) ==
    IF Len(configured) >= 1 /\ SubSeq(configured, 1, 1) = "/"
    THEN configured
    ELSE specs_dir \o "/" \o configured

RunRepoCacheDir == repo_cache_dir("/specs", "repo-cache")

Platforms == {"linux", "osx"}

SharedConfig(upload_channel, labels, token_string) ==
    [upload_channel |-> upload_channel, labels |-> labels,
     token_string |-> token_string]

\* parse_specs: the token flag of the upload command
TokenString(token) == IF token # "" THEN "-t " \o token ELSE ""

parse_specs_appending(destination_channel, label, token) ==
    LET stripped == strip_label(destination_channel)
        labels == IF stripped.has_label THEN Append(label, stripped.label) ELSE label
    IN SharedConfig(stripped.channel, labels, TokenString(token))

\* parse_specs: the labels, the upload channel and the token flag of the
\* shared configuration
parse_specs(destination_channel, label, token) ==
    LET stripped == strip_label(destination_channel)
        labels == IF stripped.has_label /\ stripped.label \notin Range(label)
                  THEN Append(label, stripped.label)
                  ELSE label
    IN SharedConfig(stripped.channel, labels, TokenString(token))

RunConfigs == { SharedConfig("ch", <<"main">>, TokenString("ohoh")) }

\* what the render tool may print for a recipe: a line of diagnostics, then
\* the artifact paths of its outputs (none, one, two, or one of another name)
RunTuples(name) ==
    { <<>>,
      <<CCPkgName(name, "1.0", "b0")>>,
      <<CCPkgName(name, "1.0", "b0"), CCPkgName(name, "1.0", "b1")>>,
      <<CCPkgName(name, "1.0", "b0"), CCPkgName("zz", "1.0", "b0")>> }

RenderText(platform, ids) ==
    "patching file x\n"
        \o Join("\n", [i \in 1..Len(ids) |-> ArchPath(platform, ids[i])])

RunRenders(name, platform) ==
    { [exit |-> 0, output |-> RenderText(platform, ids)] : ids \in RunTuples(name) }
      \cup { [exit |-> 1, output |-> ""] }

\* what the search tool may answer for a package name
SearchRecord(version, build) == [version |-> version, build |-> build]

RunSearches(name) ==
    { [exit |-> 0, output |-> "", json |-> [n \in {name} |-> records]] :
        records \in { <<>>,
                      <<SearchRecord("1.0", "b0")>>,
                      <<SearchRecord("1.0", "b1")>>,
                      <<SearchRecord("1.0", "b1"), SearchRecord("1.0", "b0")>> } }
      \cup { [exit |-> 0, output |-> "", json |-> <<>>],
             [exit |-> 1, output |-> "The " \o SearchSignature \o ":", json |-> <<>>],
             [exit |-> 1, output |-> "", json |-> <<>>] }

\* the files that may exist below the build folder when the upload starts:
\* none, every artifact in the platform folder, every artifact in noarch, or
\* the first artifact alone
RunFiles(pkg_names, platform) ==
    { {},
      {ArchPath(platform, pkg_names[i]) : i \in 1..Len(pkg_names)},
      {NoarchPath(pkg_names[i]) : i \in 1..Len(pkg_names)},
      {ArchPath(platform, pkg_names[i]) : i \in 1..1} }

\* an external step: the recipe it is for, what ran, its arguments, its exit
\* code and, for a search, the text it printed
\* render and build are given build_environment, the other steps inherit
\* the environment of the process; dir is the working directory they run in
CallIn(spec, tool, args, exit, dir) ==
    [spec |-> spec, tool |-> tool, args |-> args, exit |-> exit, output |-> "",
     cwd |-> dir,
     env |-> IF tool \in {"render", "build"} THEN build_environment ELSE environ]

Call(spec, tool, args, exit) == CallIn(spec, tool, args, exit, cwd)

SearchCall(spec, args, so) ==
    [spec |-> spec, tool |-> "search", args |-> args, exit |-> so.exit,
     output |-> so.output, cwd |-> cwd, env |-> environ]

----------------------------------------------------------------------------
(* core.py: main and build_and_upload_recipe *)

Init ==
    /\ selected_recipe_specs \in SeqsUpTo(RecipeSpecs, MaxRecipes)
    /\ shared_config \in RunConfigs
    /\ PLATFORM_STR \in Platforms
    /\ idx = 1
    /\ pc = "loop"
    /\ status = NoStatus
    /\ c_pkg_names = <<>>
    /\ packages_found = <<>>
    /\ result = EmptyResult
    /\ disk = NoFile
    /\ calls = <<>>
    /\ cwd = "/work"
    /\ environ = AmbientEnviron
    /\ build_environment = <<>>
    /\ input = NoInput
    /\ output = NoOutput

write_stale_result(r) == [written |-> TRUE, content |-> result]

\* write_result: the file then holds the report it was given
write_result(r) == [written |-> TRUE, content |-> r]

\* build_and_upload_recipe returns st: main appends it to the report and
\* writes the report
Return(st) ==
    /\ status' = st
    /\ result' = [result EXCEPT ![st.kind] = Append(@, st.info)]
    /\ disk' = write_result(result')
    /\ idx' = idx + 1
    /\ pc' = "loop"

RaiseWithoutEntry(e) ==
    /\ result' = result
    /\ disk' = write_result(result')
    /\ pc' = "raised"
    /\ UNCHANGED <<idx, status>>

\* build_and_upload_recipe raises e: main records it, writes the report and
\* raises it again
Raise(e) ==
    /\ result' = [result EXCEPT
                    !.errors = Append(@, [spec |-> selected_recipe_specs[idx],
                                          error |-> e])]
    /\ disk' = write_result(result')
    /\ pc' = "raised"
    /\ UNCHANGED <<idx, status>>

package_info(package_name, pkg_names) ==
    [pakage_name |-> package_name,
     recipe_versions |-> [i \in 1..Len(pkg_names) |-> pkg_names[i].version],
     recipe_build_string |-> [i \in 1..Len(pkg_names) |-> pkg_names[i].build_string]]

AnyFound(found) == \E i \in 1..Len(found) : found[i][2]

\* all(x[1] for x in packages_found)
AllFound(found) == \A i \in 1..Len(found) : found[i][2]

InvertedPlatformFilter(recipe_spec, platform) ==
    recipe_spec.has_build_on /\ platform \in Range(recipe_spec.build_on)

\* the platform filter: PLATFORM_STR not in platforms_to_build_on
SkipOnPlatform(recipe_spec, platform) ==
    LET platforms_to_build_on ==
            IF recipe_spec.has_build_on THEN recipe_spec.build_on
            ELSE <<"win", "osx", "linux">>
    IN platform \notin Range(platforms_to_build_on)

SysExitCaught == Raise(Error("SystemExit", ""))

\* sys.exit in build_recipe: SystemExit is not an Exception, main's handler
\* lets it through and the process ends
SysExit ==
    /\ pc' = "exited"
    /\ UNCHANGED <<idx, status, result, disk>>

\* Python: str(value)
Str(v) == EnvValue("str", v.repr)

\* recipe_spec["environment"][key] = str(recipe_spec["environment"][key])
StrValues(environment) == [k \in DOMAIN environment |-> Str(environment[k])]

\* Python: d.update(other), as a new dict
Update(d, other) ==
    [k \in DOMAIN d \cup DOMAIN other |-> IF k \in DOMAIN other THEN other[k] ELSE d[k]]

os_environ_updated(overrides) == Update(environ, overrides)

\* os.environ after build_environment = dict(**os.environ) was updated with
\* the overrides: the copy was, os.environ was not
os_environ(overrides) == environ

\* Python: os.chdir(path) in directory dir
ChDir(dir, path) ==
    IF Len(path) >= 1 /\ SubSeq(path, 1, 1) = "/" THEN path ELSE dir \o "/" \o path

\* splitext(basename(recipe_repo))[0]
RepoName(recipe_repo) ==
    LET base == PathName(recipe_repo)
        dot == LastIndexOf(base, ".", Len(base))
    IN IF dot > 1 THEN SubSeq(base, 1, dot - 1) ELSE base

checkout_without_return(recipe_repo, dir, outcome) ==
    [raised |-> outcome # "ok", repo_name |-> RepoName(recipe_repo),
     cwd |-> IF outcome = "clone failed" THEN dir
             ELSE ChDir(dir, RepoName(recipe_repo))]

\* checkout_recipe_repo entered in directory dir: it goes into the repository
\* (after the clone, when there is one) and comes back at the end; a failing
\* git step raises where the process then is
checkout_recipe_repo(recipe_repo, dir, outcome) ==
    LET repo_name == RepoName(recipe_repo)
    IN IF outcome = "clone failed"
       THEN [raised |-> TRUE, repo_name |-> repo_name, cwd |-> dir]
       ELSE IF outcome = "git failed"
       THEN [raised |-> TRUE, repo_name |-> repo_name, cwd |-> ChDir(dir, repo_name)]
       ELSE [raised |-> FALSE, repo_name |-> repo_name, cwd |-> dir]

\* the head of build_and_upload_recipe up to the checkout
BeginRecipe ==
    /\ pc = "loop"
    /\ idx <= Len(selected_recipe_specs)
    /\ LET recipe_spec == selected_recipe_specs[idx]
       IN IF SkipOnPlatform(recipe_spec, PLATFORM_STR)
          THEN /\ Return([kind |-> "skipped", info |-> [spec |-> recipe_spec]])
               /\ UNCHANGED <<calls, selected_recipe_specs, cwd, environ,
                              build_environment>>
          ELSE LET overrides == IF recipe_spec.has_environment
                                THEN StrValues(recipe_spec.environment)
                                ELSE <<>>
               IN /\ selected_recipe_specs' =
                        [selected_recipe_specs EXCEPT ![idx].environment = overrides]
                  /\ build_environment' = Update(environ, overrides)
                  /\ environ' = os_environ(overrides)
                  /\ cwd' = ChDir(cwd, RunRepoCacheDir)
                  /\ calls' = Append(calls, Call(idx, "chdir", <<"repo-cache-dir">>, 0))
                  /\ pc' = "checkout"
                  /\ UNCHANGED <<idx, status, result, disk>>
    /\ c_pkg_names' = <<>>
    /\ packages_found' = <<>>
    /\ UNCHANGED <<shared_config, PLATFORM_STR>>
    /\ UNCHANGED <<input, output>>

Checkout ==
    /\ pc = "checkout"
    /\ \E outcome \in {"ok", "clone failed", "git failed"} :
         LET r == checkout_recipe_repo(selected_recipe_specs[idx].recipe_repo, cwd,
                                       outcome)
         IN IF ~r.raised
            THEN /\ calls' = calls \o <<Call(idx, "checkout", <<>>, 0),
                                       CallIn(idx, "chdir", <<"repo_dir">>, 0, r.cwd)>>
                 /\ cwd' = ChDir(r.cwd, r.repo_name)
                 /\ pc' = "render"
                 /\ UNCHANGED <<idx, status, result, disk>>
            ELSE /\ calls' = Append(calls, Call(idx, "checkout", <<>>, 1))
                 /\ cwd' = r.cwd
                 /\ Raise(Error("RuntimeError", ""))
    /\ UNCHANGED <<selected_recipe_specs, shared_config, PLATFORM_STR,
                   c_pkg_names, packages_found, environ, build_environment>>
    /\ UNCHANGED <<input, output>>

Render ==
    /\ pc = "render"
    /\ \E render \in RunRenders(selected_recipe_specs[idx].name, PLATFORM_STR) :
         LET r == get_rendered_version(selected_recipe_specs[idx].name, render)
         IN /\ calls' = Append(calls, Call(idx, "render", <<>>, render.exit))
            /\ IF r.raised
               THEN /\ Raise(Error(r.error, ""))
                    /\ UNCHANGED c_pkg_names
               ELSE /\ c_pkg_names' = r.value
                    /\ pc' = "search"
                    /\ UNCHANGED <<idx, status, result, disk>>
    /\ UNCHANGED <<selected_recipe_specs, shared_config, PLATFORM_STR,
                   packages_found>>
    /\ UNCHANGED <<cwd, environ, build_environment>>
    /\ UNCHANGED <<input, output>>

Search ==
    /\ pc = "search"
    /\ \E so \in RunSearches(selected_recipe_specs[idx].name) :
         LET r == check_already_exists(c_pkg_names, so)
         IN /\ calls' = IF r.searched
                        THEN Append(calls, SearchCall(idx,
                                                <<c_pkg_names[1].package_name>>, so))
                        ELSE calls
            /\ IF r.raised
               THEN /\ Raise(Error(r.error, ""))
                    /\ UNCHANGED packages_found
               ELSE /\ packages_found' = r.value
                    /\ IF AllFound(r.value)
                       THEN Return([kind |-> "found",
                                    info |-> package_info(
                                        selected_recipe_specs[idx].name, c_pkg_names)])
                       ELSE /\ pc' = "build"
                            /\ UNCHANGED <<idx, status, result, disk>>
    /\ UNCHANGED <<selected_recipe_specs, shared_config, PLATFORM_STR, c_pkg_names>>
    /\ UNCHANGED <<cwd, environ, build_environment>>
    /\ UNCHANGED <<input, output>>

\* build_recipe: a nonzero exit is sys.exit, which main's except does not catch
Build ==
    /\ pc = "build"
    /\ \E exit \in {0, 1} :
         /\ calls' = Append(calls, Call(idx, "build",
                                        <<selected_recipe_specs[idx].name>>, exit))
         /\ IF exit # 0
            THEN SysExit
            ELSE /\ pc' = "upload"
                 /\ UNCHANGED <<idx, status, result, disk>>
    /\ UNCHANGED <<selected_recipe_specs, shared_config, PLATFORM_STR,
                   c_pkg_names, packages_found>>
    /\ UNCHANGED <<cwd, environ, build_environment>>
    /\ UNCHANGED <<input, output>>

Upload ==
    /\ pc = "upload"
    /\ \E fs \in RunFiles(c_pkg_names, PLATFORM_STR), exit \in {0, 1} :
         LET r == upload_package(c_pkg_names, shared_config, PLATFORM_STR, fs, exit)
         IN /\ calls' = IF r.invoked
                        THEN Append(calls, Call(idx, "upload", r.package_paths, exit))
                        ELSE calls
            /\ IF r.raised
               THEN Raise(Error(r.error, r.error_cmd))
               ELSE Return([kind |-> "built",
                            info |-> package_info(
                                selected_recipe_specs[idx].name, c_pkg_names)])
    /\ UNCHANGED <<selected_recipe_specs, shared_config, PLATFORM_STR,
                   c_pkg_names, packages_found>>
    /\ UNCHANGED <<cwd, environ, build_environment>>
    /\ UNCHANGED <<input, output>>

\* the end of main: the loop is over, the report gets its end time
Finish ==
    /\ pc = "loop"
    /\ idx > Len(selected_recipe_specs)
    /\ result' = [result EXCEPT !.ended = TRUE]
    /\ disk' = write_result(result')
    /\ pc' = "done"
    /\ UNCHANGED <<selected_recipe_specs, shared_config, PLATFORM_STR, idx, status,
                   c_pkg_names, packages_found, calls>>
    /\ UNCHANGED <<cwd, environ, build_environment>>
    /\ UNCHANGED <<input, output>>

Next ==
    \/ BeginRecipe
    \/ Checkout
    \/ Render
    \/ Search
    \/ Build
    \/ Upload
    \/ Finish

Spec == Init /\ [][Next]_vars

----------------------------------------------------------------------------
(* Properties of a run *)

\* the steps of recipe i that ran one of the given tools, in order
CallsOf(i, tools) == SelectSeq(calls, LAMBDA c : c.spec = i /\ c.tool \in tools)

Tools(cs) == [k \in 1..Len(cs) |-> cs[k].tool]

\* the recipe that build_and_upload_recipe was last entered for
Current == IF pc \in {"loop", "done"} THEN idx - 1 ELSE idx

Returned == pc \in {"loop", "done"}

Entries(r) == Len(r.found) + Len(r.built) + Len(r.errors) + Len(r.skipped)

\* C1: for a recipe that passed the platform filter and rendered a non-empty
\* tuple, once check_already_exists has reported, the outcome is 'found' if
\* and only if every identity was reported found, and a 'found' recipe has no
\* build and no upload invocation.
C1_FoundIffAllFound ==
    packages_found # <<>> =>
        LET every == \A i \in DOMAIN packages_found : packages_found[i][2] = TRUE
            outcome_found == Returned /\ status.kind = "found"
        IN /\ outcome_found <=> every
           /\ every => /\ Returned
                       /\ CallsOf(Current, {"build", "upload"}) = <<>>
                       /\ result.found # <<>>

C1_Witness ==
    /\ pc = "loop"
    /\ status.kind = "found"
    /\ Len(packages_found) = 2
    /\ \E c \in Range(calls) : c.tool = "upload"

\* at least one identity of the tuple was reported found and at least one not
PartlyFound ==
    /\ \E i \in DOMAIN packages_found : packages_found[i][2] = TRUE
    /\ \E i \in DOMAIN packages_found : packages_found[i][2] = FALSE

\* the artifact list has one path per identity of the tuple, in tuple order
CoversTuple(paths) ==
    /\ Len(paths) = Len(c_pkg_names)
    /\ \A i \in DOMAIN paths :
         \E dir \in {PLATFORM_STR \o "-64", "noarch"} :
            paths[i] = "/bld/" \o dir \o "/" \o c_pkg_names[i].package_name
                          \o "-" \o c_pkg_names[i].version
                          \o "-" \o c_pkg_names[i].build_string \o ".tar.bz2"

Excluded(i) ==
    /\ selected_recipe_specs[i].has_build_on
    /\ \A k \in DOMAIN selected_recipe_specs[i].build_on :
          selected_recipe_specs[i].build_on[k] # PLATFORM_STR

\* C3: a recipe whose build-on list does not have the current platform gets
\* the 'skipped' outcome, no error, and no step at all: no chdir, checkout,
\* render, search, build or upload is performed for it.
C3_SkippedWithoutSteps ==
    \A i \in DOMAIN selected_recipe_specs :
        Excluded(i) =>
            /\ \A k \in DOMAIN calls : calls[k].spec # i
            /\ ~(i = idx /\ pc # "loop")
            /\ (i = idx - 1 /\ Returned) =>
                   status = [kind |-> "skipped",
                             info |-> [spec |-> selected_recipe_specs[i]]]
            /\ i < idx =>
                   /\ Len(result.skipped) >= 1
                   /\ Len(result.errors) = (IF pc = "raised" THEN 1 ELSE 0)
                   /\ Len(result.skipped) =
                        Cardinality({j \in 1..(idx - 1) : Excluded(j)})

C3_Witness ==
    /\ pc = "loop"
    /\ idx = 3
    /\ Excluded(2)
    /\ status.kind = "skipped"
    /\ calls # <<>>

\* C4: a build invocation that exits nonzero is the last thing the run does:
\* no upload for that recipe, no step for a later recipe, and the recipe has
\* no entry in the report (not in errors, found or built), in memory or on
\* disk.
C4_BuildFailureEndsRun ==
    \A k \in DOMAIN calls :
        (calls[k].tool = "build" /\ calls[k].exit # 0) =>
            /\ k = Len(calls)
            /\ pc = "exited"
            /\ idx = calls[k].spec
            /\ result.errors = <<>>
            /\ ~result.ended
            /\ Entries(result) = idx - 1
            /\ disk = IF idx = 1 THEN [written |-> FALSE]
                      ELSE [written |-> TRUE, content |-> result]

C4_Witness ==
    /\ pc = "exited"
    /\ idx = 2
    /\ idx < Len(selected_recipe_specs) + 1
    /\ calls[Len(calls)].tool = "build"
    /\ calls[Len(calls)].exit = 1
    /\ Entries(result) = 1

\* a step of the pipeline failed in a way that raises an exception
LastCallRaises(cs) ==
    /\ cs # <<>>
    /\ LET c == cs[Len(cs)]
       IN \/ c.tool \in {"checkout", "render", "upload"} /\ c.exit # 0
          \/ /\ c.tool = "search"
             /\ c.exit # 0
             /\ ~Contains(c.output, "packages are not available from current channels")

\* C5: when processing a recipe raises an exception, main appends exactly one
\* entry for that recipe to errors, writes the report and stops: nothing runs
\* after it, and the found, built and skipped lists are as they were.
C5_ExceptionIsRecordedOnce ==
    [][ /\ pc # "raised"
        /\ LastCallRaises(calls') => pc' = "raised"
        /\ result'.errors # <<>> => pc' = "raised"
        /\ pc' = "raised" =>
             /\ Len(result'.errors) = 1
             /\ result'.errors[1].spec = selected_recipe_specs[idx]
             /\ result.errors = <<>>
             /\ result'.found = result.found
             /\ result'.built = result.built
             /\ result'.skipped = result.skipped
             /\ disk' = [written |-> TRUE, content |-> result']
             /\ idx' = idx
             /\ \A k \in DOMAIN calls' : calls'[k].spec <= idx
      ]_vars

C5_Witness ==
    /\ pc = "raised"
    /\ idx = 2
    /\ idx < Len(selected_recipe_specs) + 1
    /\ Len(result.errors) = 1
    /\ Len(result.built) = 1
    /\ result.errors[1].error.type = "CalledProcessError"

\* C6: whenever a recipe has finished with an outcome (found, built, skipped
\* or errored), the report on disk is the report in memory, which has one
\* entry per recipe processed so far, each list in processing order: a step
\* that ends a recipe appends one entry to one list and leaves the rest alone.
C6_ReportIsCumulative ==
    [][ (idx' # idx \/ pc' = "raised") =>
            /\ disk' = [written |-> TRUE, content |-> result']
            /\ Entries(result') = (IF pc' = "raised" THEN idx' ELSE idx' - 1)
            /\ Entries(result') = Entries(result) + 1
            /\ \A kind \in {"found", "built", "errors", "skipped"} :
                  SubSeq(result'[kind], 1, Len(result[kind])) = result[kind]
            /\ disk.written => disk.content = result
            /\ ~result'.ended
      ]_vars

C6_Witness ==
    /\ pc = "loop"
    /\ idx = 3
    /\ disk = [written |-> TRUE, content |-> result]
    /\ Len(result.found) = 1
    /\ Len(result.built) = 1

----------------------------------------------------------------------------
(* get_selected_specs on its own *)

\* while a function is checked on its own there is no run
NoRun ==
    /\ selected_recipe_specs = <<>>
    /\ shared_config = SharedConfig("", <<>>, "")
    /\ PLATFORM_STR = "linux"
    /\ idx = 1
    /\ pc = "idle"
    /\ status = NoStatus
    /\ c_pkg_names = <<>>
    /\ packages_found = <<>>
    /\ result = EmptyResult
    /\ disk = NoFile
    /\ calls = <<>>
    /\ cwd = ""
    /\ environ = <<>>
    /\ build_environment = <<>>

run_vars == <<selected_recipe_specs, shared_config, PLATFORM_STR, idx, pc, status,
              c_pkg_names, packages_found, result, disk, calls,
              cwd, environ, build_environment>>

\* the entries of a specs file: two of them share the name "a"
FileEntries ==
    { [name |-> "a", tag |-> "v1"], [name |-> "a", tag |-> "v2"],
      [name |-> "b", tag |-> "v1"], [name |-> "c", tag |-> "v1"] }

InitSelect ==
    /\ NoRun
    /\ input \in { [fn |-> "get_selected_specs",
                    args |-> [start_from |-> start, selected_recipes |-> selected],
                    full_recipe_specs |-> full] :
                     start \in {"", "a", "b", "x"},
                     selected \in SeqsUpTo({"a", "c", "x"}, MaxSelected),
                     full \in SeqsUpTo(FileEntries, MaxSpecs) }
    /\ output = NoOutput

SelectSpecs ==
    /\ input.fn = "get_selected_specs"
    /\ output = NoOutput
    /\ output' = get_selected_specs(input.args, input.full_recipe_specs)
    /\ UNCHANGED <<input, run_vars>>

NextSelect == SelectSpecs

SpecSelect == InitSelect /\ [][NextSelect]_vars

\* get_selected_specs has returned a list
Selected == output # NoOutput /\ ~output.exited

\* the position of the first entry named as start-from (1 when none is given)
StartAt ==
    IF input.args.start_from = "" THEN 1
    ELSE CHOOSE k \in 1..Len(input.full_recipe_specs) :
           /\ input.full_recipe_specs[k].name = input.args.start_from
           /\ \A j \in 1..(k - 1) :
                 input.full_recipe_specs[j].name # input.args.start_from

\* the positions of the specs file that are to be processed
Kept ==
    { j \in StartAt..Len(input.full_recipe_specs) :
        \/ input.args.selected_recipes = <<>>
        \/ \E i \in DOMAIN input.args.selected_recipes :
              input.args.selected_recipes[i] = input.full_recipe_specs[j].name }

\* the returned list is the entries at the kept positions, in file order
IsKeptSublist ==
    /\ Len(output.value) = Cardinality(Kept)
    /\ \A j \in Kept :
          output.value[Cardinality({k \in Kept : k <= j})] = input.full_recipe_specs[j]

\* C7 as stated: the returned list is the order-preserving sub-list of the
\* entries at or after start-from that are selected, and every selected name
\* that exists in the specs file is in it.
C7_AsStated ==
    Selected =>
        /\ IsKeptSublist
        /\ \A i \in DOMAIN input.args.selected_recipes :
              (\E j \in DOMAIN input.full_recipe_specs :
                  input.full_recipe_specs[j].name = input.args.selected_recipes[i])
              => \E k \in DOMAIN output.value :
                    output.value[k].name = input.args.selected_recipes[i]

\* C7 (amended): the returned list is the order-preserving sub-list of the
\* entries at or after start-from that are selected (all of them without a
\* selection), in file order whatever the order of the selection; every
\* selected name that exists at or after start-from is in it, and one that
\* exists only before start-from is not.
C7_SelectedSublistFromStart ==
    Selected =>
        /\ IsKeptSublist
        /\ \A i \in DOMAIN input.args.selected_recipes :
              (\E k \in DOMAIN output.value :
                  output.value[k].name = input.args.selected_recipes[i])
              <=> (\E j \in StartAt..Len(input.full_recipe_specs) :
                  input.full_recipe_specs[j].name = input.args.selected_recipes[i])

C7_Witness ==
    /\ Selected
    /\ input.args.start_from = "b"
    /\ input.args.selected_recipes = <<"c", "a">>
    /\ Len(input.full_recipe_specs) = 3
    /\ input.full_recipe_specs[1].name = "a"
    /\ Len(output.value) = 1

----------------------------------------------------------------------------
(* check_already_exists on its own *)

SearchIdentities ==
    { CCPkgName("a", v, b) : v \in {"1.0", "2.0"}, b \in {"b0", "b1"} }

SearchRecords ==
    { SearchRecord(v, b) : v \in {"1.0", "2.0"}, b \in {"b0", "b1"} }

\* the records a response has under another package name
OtherRecords ==
    <<SearchRecord("1.0", "b0"), SearchRecord("1.0", "b1"),
      SearchRecord("2.0", "b0"), SearchRecord("2.0", "b1")>>

SearchResponses ==
    { [exit |-> 0, output |-> "", json |-> <<>>],
      [exit |-> 0, output |-> "", json |-> [n \in {"zz"} |-> OtherRecords]] }
      \cup { [exit |-> 0, output |-> "", json |-> [n \in {"a"} |-> records]] :
               records \in SeqsUpTo(SearchRecords, MaxRecords) }
      \cup { [exit |-> 0, output |-> "",
              json |-> [n \in {"a", "zz"} |-> IF n = "a" THEN records ELSE OtherRecords]] :
               records \in SeqsUpTo(SearchRecords, MaxRecords) }
      \cup { [exit |-> 1, output |-> text, json |-> <<>>] :
               text \in { "The following packages are not available from current channels:\n\n  - a\n",
                          "PackagesNotFoundError: The following packages are not available from current channels:",
                          "",
                          "CondaHTTPError: HTTP 000 CONNECTION FAILED",
                          "packages are not available" } }

InitSearch ==
    /\ NoRun
    /\ input \in { [fn |-> "check_already_exists", pkg_names |-> ids, so |-> so] :
                     ids \in SeqsUpTo(SearchIdentities, MaxIdentities),
                     so \in SearchResponses }
    /\ output = NoOutput

CheckExists ==
    /\ input.fn = "check_already_exists"
    /\ output = NoOutput
    /\ output' = check_already_exists(input.pkg_names, input.so)
    /\ UNCHANGED <<input, run_vars>>

NextSearch == CheckExists

SpecSearch == InitSearch /\ [][NextSearch]_vars

\* the search response has a record with the version and the build string of
\* identity i under the queried package name
InResponse(i) ==
    LET name == input.pkg_names[1].package_name
    IN /\ name \in DOMAIN input.so.json
       /\ \E k \in DOMAIN input.so.json[name] :
             /\ input.so.json[name][k].version = input.pkg_names[i].version
             /\ input.so.json[name][k].build = input.pkg_names[i].build_string

\* C9: for a search that answered, check_already_exists returns one record
\* per identity, in input order, and an identity is found if and only if the
\* response has a record of the same version and build under the queried name.
C9_FoundIffInResponse ==
    (output # NoOutput /\ input.pkg_names # <<>> /\ input.so.exit = 0) =>
        /\ ~output.raised
        /\ Len(output.value) = Len(input.pkg_names)
        /\ \A i \in DOMAIN input.pkg_names :
              /\ output.value[i][1] = input.pkg_names[i]
              /\ output.value[i][2] = InResponse(i)

C9_Witness ==
    /\ output # NoOutput
    /\ input.so.exit = 0
    /\ DOMAIN input.so.json = {"a", "zz"}
    /\ input.pkg_names = <<CCPkgName("a", "1.0", "b0"), CCPkgName("a", "2.0", "b1")>>
    /\ input.so.json["a"] = <<SearchRecord("1.0", "b1"), SearchRecord("1.0", "b0")>>
    /\ output.value[1][2] = TRUE
    /\ output.value[2][2] = FALSE

\* the output of the failed search has the known zero-result text
KnownSignature ==
    \E i \in 1..(Len(input.so.output) - 57) :
        SubSeq(input.so.output, i, i + 57)
            = "following packages are not available from current channels"

\* C10: a search that exits nonzero with the known signature raises nothing
\* and reports every identity not-found; one that exits nonzero without it
\* raises, and no existence record is returned.
C10_OnlyKnownFailureIsNotFound ==
    (output # NoOutput /\ input.pkg_names # <<>> /\ input.so.exit # 0) =>
        IF KnownSignature
        THEN /\ ~output.raised
             /\ Len(output.value) = Len(input.pkg_names)
             /\ \A i \in DOMAIN input.pkg_names :
                   output.value[i] = <<input.pkg_names[i], FALSE>>
        ELSE /\ output.raised
             /\ output.error = "CalledProcessError"
             /\ output.value = <<>>

C10_Witness ==
    /\ output # NoOutput
    /\ input.so.exit = 1
    /\ KnownSignature
    /\ Len(input.pkg_names) = 2
    /\ ~output.raised
    /\ output.value[2][2] = FALSE

----------------------------------------------------------------------------
(* upload_package on its own *)

\* tokens: none, an ordinary one, and ones whose text is also the channel, a
\* label, part of an artifact name, a fixed word of the command, part of the
\* marker or its closing bracket
UploadTokens == {"", "ohoh", "ch", "main", "b0", "upload", "token", ">"}

\* destination channels: the channel and the label embedded in it, if any
UploadChannels == { [channel |-> "ch", label |-> ""],
                    [channel |-> "ilastik-forge", label |-> "test"] }

Destination(d) ==
    IF d.label = "" THEN d.channel ELSE d.channel \o "/label/" \o d.label

UploadLabels == { <<>>, <<"main">>, <<"test", "ohoh">> }

UploadTuple == << CCPkgName("a", "1.0", "b0"), CCPkgName("a-b", "1.0", "b1") >>

UploadIdentities == Range(UploadTuple)

UploadFiles(pkg_names, platform) ==
    SUBSET UNION { {ArchPath(platform, pkg_names[i]), NoarchPath(pkg_names[i])} :
                      i \in 1..Len(pkg_names) }

InitUpload ==
    /\ NoRun
    /\ input \in { [fn |-> "upload_package", pkg_names |-> ids, token |-> token,
                    destination |-> channel,
                    config |-> parse_specs(Destination(channel), labels, token),
                    platform |-> "linux", fs |-> fs, exit |-> exit] :
                     ids \in SeqsUpTo(UploadIdentities, MaxIdentities),
                     token \in UploadTokens,
                     channel \in UploadChannels,
                     labels \in UploadLabels,
                     fs \in UploadFiles(UploadTuple, "linux"),
                     exit \in {0, 1} }
    /\ output = NoOutput

UploadOnly ==
    /\ input.fn = "upload_package"
    /\ output = NoOutput
    /\ output' = upload_package(input.pkg_names, input.config, input.platform,
                                input.fs, input.exit)
    /\ UNCHANGED <<input, run_vars>>

NextUpload == UploadOnly

SpecUpload == InitUpload /\ [][NextUpload]_vars

\* the upload invocation failed and a token is configured
FailedWithToken ==
    /\ output # NoOutput
    /\ output.invoked
    /\ output.raised
    /\ input.token # ""

Occurs(sub, s) == \E i \in 1..(Len(s) - Len(sub) + 1) : SubSeq(s, i, i + Len(sub) - 1) = sub

\* C8 as stated: the command text of the propagated error never contains the
\* token value, for every channel, label set, artifact list and token.
C8_AsStated == FailedWithToken => ~Occurs(input.token, output.error_cmd)

\* the command as invoked, after the token flag
AfterTokenFlag ==
    SubSeq(output.cmd, Len("anaconda -t ") + Len(input.token) + 1, Len(output.cmd))

\* the token text is nowhere else in the command and is foreign to the marker
TokenOnlyInFlag ==
    /\ ~Occurs(input.token, "anaconda ")
    /\ ~Occurs(input.token, AfterTokenFlag)
    /\ ~Occurs(input.token, "<token-string removed>")
    /\ ~Occurs("<", input.token)
    /\ ~Occurs(">", input.token)

\* C8 (amended): in the command text of the propagated error the token flag
\* is replaced by the marker, and the text does not contain the token value
\* unless the token text also occurs elsewhere in the command (fixed words,
\* channel, labels, artifact paths) or in the marker.
C8_TokenFlagIsRedacted ==
    FailedWithToken =>
        /\ SubSeq(output.cmd, 1, Len("anaconda -t ") + Len(input.token))
              = "anaconda -t " \o input.token
        /\ SubSeq(output.error_cmd, 1, 39) = "anaconda <token-string removed> upload "
        /\ TokenOnlyInFlag => ~Occurs(input.token, output.error_cmd)

C8_Witness ==
    /\ FailedWithToken
    /\ input.token = "ohoh"
    /\ Len(input.pkg_names) = 2
    /\ input.config.labels = <<"main">>
    /\ Occurs("ohoh", output.cmd)
    /\ ~Occurs("ohoh", output.error_cmd)

\* upload_package has been applied
Uploaded == output # NoOutput /\ input.fn = "upload_package"

\* where the artifact of identity i must be taken from, "" when it is nowhere
ExpectedPath(i) ==
    LET c == input.pkg_names[i]
        file == c.package_name \o "-" \o c.version \o "-" \o c.build_string \o ".tar.bz2"
        arch == "/bld/" \o input.platform \o "-64/" \o file
        noarch == "/bld/noarch/" \o file
    IN IF arch \in input.fs THEN arch
       ELSE IF noarch \in input.fs THEN noarch
       ELSE ""

AllResolved == \A i \in 1..Len(input.pkg_names) : ExpectedPath(i) # ""

\* C16: each artifact is taken from the platform directory when it is there,
\* else from noarch; when one identity has neither, upload_package raises a
\* not-found error and the upload tool is not invoked.
C16_ResolvedOrNotInvoked ==
    Uploaded =>
        IF AllResolved
        THEN /\ output.invoked
             /\ output.package_paths =
                   [i \in 1..Len(input.pkg_names) |-> ExpectedPath(i)]
        ELSE /\ output.raised
             /\ output.error = "RuntimeError"
             /\ ~output.invoked
             /\ output.package_paths = <<>>

C16_Witness ==
    /\ Uploaded
    /\ Len(input.pkg_names) = 2
    /\ ExpectedPath(1) = "/bld/noarch/a-1.0-b0.tar.bz2"
    /\ ExpectedPath(2) = ""
    /\ output.raised
    /\ ~output.invoked

\* the words of the upload command as the claim lists them
ExpectedWords ==
    <<"anaconda">>
        \o (IF input.token # "" THEN <<"-t", input.token>> ELSE <<>>)
        \o <<"upload", "--skip-existing", "-u", input.destination.channel>>
        \o [k \in 1..(2 * Len(input.config.labels)) |->
              IF k % 2 = 1 THEN "--label" ELSE input.config.labels[k \div 2]]
        \o [i \in 1..Len(input.pkg_names) |-> ExpectedPath(i)]

----------------------------------------------------------------------------
(* get_rendered_version on its own *)

RenderNames == {"abc", "a-b-c"}

RenderIdentities ==
    { CCPkgName(n, "1.0.0", "0py0") : n \in RenderNames }
        \cup { CCPkgName("abc", "1.0.0", "1py2") }

\* a line of the render output: the path of an artifact, a path with the
\* archive suffix that is no name-version-build, or diagnostics
ArtifactLine(c) ==
    [kind |-> "artifact", id |-> c, text |-> "/some/path/" \o pkg_file_name(c)]

OtherLine(kind, text) == [kind |-> kind, id |-> CCPkgName("", "", ""), text |-> text]

RenderLines ==
    { ArtifactLine(c) : c \in RenderIdentities }
        \cup { OtherLine("malformed", "/some/path/abc.tar.bz2"),
               OtherLine("noise", "Patch level ambiguous, selecting least deep"),
               OtherLine("noise", "[[ RA-MD1--VE ]] - [[ 0001-fix.tar.bz2.patch ]]") }

RenderOutput(lines, eol) == Join(eol, [i \in 1..Len(lines) |-> lines[i].text])

InitRender ==
    /\ NoRun
    /\ input \in { [fn |-> "get_rendered_version", package_name |-> n, lines |-> lines,
                    eol |-> eol,
                    render |-> [exit |-> exit, output |-> RenderOutput(lines, eol)]] :
                     n \in RenderNames,
                     lines \in SeqsUpTo(RenderLines, MaxLines),
                     eol \in {"\n", "\r\n"},
                     exit \in {0, 1} }
    /\ output = NoOutput

RenderVersion ==
    /\ input.fn = "get_rendered_version"
    /\ output = NoOutput
    /\ output' = get_rendered_version(input.package_name, input.render)
    /\ UNCHANGED <<input, run_vars>>

NextRender == RenderVersion

SpecRender == InitRender /\ [][NextRender]_vars

\* the render tool succeeded and get_rendered_version has been applied
Rendered == output # NoOutput /\ input.render.exit = 0

\* the lines of the output that are artifact paths, in order
ArtifactLines == SelectSeq(input.lines, LAMBDA l : l.kind = "artifact")

\* every line with the archive suffix is an artifact of the expected package
Genuine ==
    \A i \in 1..Len(input.lines) :
        /\ input.lines[i].kind # "malformed"
        /\ input.lines[i].kind = "artifact"
              => input.lines[i].id.package_name = input.package_name

\* the file name of an artifact line, without directory and archive suffix
BaseName(l) == SubSeq(l.text, Len("/some/path/") + 1, Len(l.text) - Len(".tar.bz2"))

\* C11: the name of each identity is the file name before its last two
\* '-' segments, which are the version and the build string, also when the
\* package name has a '-' itself.
C11_SplitFromTheRight ==
    (Rendered /\ Genuine) =>
        /\ ~output.raised
        /\ Len(output.value) = Len(ArtifactLines)
        /\ \A i \in 1..Len(output.value) :
              LET c == output.value[i]
              IN /\ c.package_name \o "-" \o c.version \o "-" \o c.build_string
                       = BaseName(ArtifactLines[i])
                 /\ ~Occurs("-", c.version)
                 /\ ~Occurs("-", c.build_string)

C11_Witness ==
    /\ Rendered
    /\ input.package_name = "a-b-c"
    /\ ~output.raised
    /\ output.value = <<CCPkgName("a-b-c", "1.0.0", "0py0")>>

\* an artifact path of the output names another package than the expected one
OtherName ==
    \E i \in 1..Len(input.lines) :
        /\ input.lines[i].kind = "artifact"
        /\ input.lines[i].id.package_name # input.package_name

\* C12: when an identity of the render output has another name than the
\* expected one, get_rendered_version raises and returns no identity.
C12_OtherNameRaises ==
    (Rendered /\ OtherName) => (output.raised /\ output.value = <<>>)

C12_Witness ==
    /\ Rendered
    /\ Len(input.lines) = 2
    /\ input.lines[1].kind = "artifact"
    /\ input.lines[1].id.package_name = input.package_name
    /\ input.lines[2].kind = "artifact"
    /\ input.lines[2].id.package_name # input.package_name
    /\ output.raised
    /\ output.error = "RuntimeError"

\* C13: with diagnostics between the artifact paths and either line ending,
\* the identities returned are those of the artifact paths, one each, in
\* order of appearance.
C13_OnePerArtifactPath ==
    (Rendered /\ Genuine) =>
        /\ ~output.raised
        /\ output.value = [i \in 1..Len(ArtifactLines) |-> ArtifactLines[i].id]

C13_Witness ==
    /\ Rendered
    /\ input.eol = "\r\n"
    /\ Len(input.lines) = 3
    /\ input.lines[1].kind = "artifact"
    /\ input.lines[2].kind = "noise"
    /\ input.lines[3].kind = "artifact"
    /\ input.lines[1] # input.lines[3]
    /\ ~output.raised
    /\ Len(output.value) = 2

\* C14 as stated: the identity tuple returned never has an identity twice.
C14_AsStated ==
    (Rendered /\ ~output.raised) =>
        \A i, j \in 1..Len(output.value) :
            i # j => output.value[i] # output.value[j]

\* C15 as stated: a render output without any artifact path is rejected at
\* the render step, so the existence check is never entered with an empty
\* identity tuple.
C15_AsStated == pc = "search" => c_pkg_names # <<>>

----------------------------------------------------------------------------
(* conda_cmd_base on its own *)

CondaCommand == {"RENDER", "SEARCH", "BUILD"}

\* parse_specs: the flags of the source channels
conda_source_channel_list(source_channels) ==
    [k \in 1..(2 * Len(source_channels)) |->
       IF k % 2 = 1 THEN "-c" ELSE source_channels[k \div 2]]

\* a key of the shared configuration that may be left out
Optional(key, has, value) == IF has THEN key :> value ELSE <<>>

CmdConfigs ==
    { ("conda-source-channel-list" :> conda_source_channel_list(src))
        @@ ("upload-channel" :> "test-upload-forge")
        @@ Optional("backend", b.has, b.value)
        @@ Optional("labels", l.has, l.value)
        @@ Optional("master-conda-build-config", v.has, v.value) :
        src \in SeqsUpTo({"test-forge", "my42channel"}, MaxChannels),
        b \in { [has |-> FALSE, value |-> ""] }
                 \cup { [has |-> TRUE, value |-> x] : x \in {"conda", "mamba", "Mamba", "boa"} },
        l \in { [has |-> FALSE, value |-> <<>>] }
                 \cup { [has |-> TRUE, value |-> x] : x \in SeqsUpTo({"blah", "forty"}, MaxLabels) },
        v \in { [has |-> FALSE, value |-> ""], [has |-> TRUE, value |-> ""],
                [has |-> TRUE, value |-> "/specs/variants.yaml"] } }

InitCmd ==
    /\ NoRun
    /\ input \in { [fn |-> "conda_cmd_base", command |-> command, shared_config |-> config] :
                     command \in CondaCommand, config \in CmdConfigs }
    /\ output = NoOutput

CmdBase ==
    /\ input.fn = "conda_cmd_base"
    /\ output = NoOutput
    /\ output' = conda_cmd_base(input.command, input.shared_config)
    /\ UNCHANGED <<input, run_vars>>

NextCmd == CmdBase

SpecCmd == InitCmd /\ [][NextCmd]_vars

\* conda_cmd_base has been applied
Built == output # NoOutput /\ input.fn = "conda_cmd_base"

Configured(key) == key \in DOMAIN input.shared_config

\* the backend in effect: conda when none is configured
Backend == IF Configured("backend") THEN input.shared_config["backend"] ELSE "conda"

ActiveLabels == IF Configured("labels") THEN input.shared_config["labels"] ELSE <<>>

\* C18: the search vector is the backend, the fixed flags, the channel pair
\* of the destination and one channel pair per active label, in order, and
\* nothing after them.
C18_SearchVector ==
    (Built /\ input.command = "SEARCH" /\ Backend \in {"conda", "mamba"}) =>
        /\ ~output.raised
        /\ Len(output.args) = 7 + 2 * Len(ActiveLabels)
        /\ SubSeq(output.args, 1, 7) =
              <<Backend, "search", "--json", "--full-name", "--override-channels",
                "--channel", "test-upload-forge">>
        /\ \A k \in 1..Len(ActiveLabels) :
              /\ output.args[6 + 2 * k] = "--channel"
              /\ output.args[7 + 2 * k] = "test-upload-forge/label/" \o ActiveLabels[k]

C18_Witness ==
    /\ Built
    /\ input.command = "SEARCH"
    /\ Backend = "mamba"
    /\ ActiveLabels = <<"forty", "blah">>
    /\ Len(output.args) = 11

\* the words after the prefix: the source-channel flags, then the variant pair
SourceAndVariant ==
    input.shared_config["conda-source-channel-list"]
        \o (IF Configured("master-conda-build-config")
               /\ input.shared_config["master-conda-build-config"] # ""
            THEN <<"-m", input.shared_config["master-conda-build-config"]>>
            ELSE <<>>)

\* C19: render is conda render --output whatever the backend, build is
\* conda build for conda (or no backend) and conda mambabuild for mamba;
\* then the source-channel flags and the variant pair when one is configured.
C19_RenderAndBuildPrefix ==
    Built =>
        /\ input.command = "RENDER" =>
              /\ ~output.raised
              /\ output.args = <<"conda", "render", "--output">> \o SourceAndVariant
        /\ (input.command = "BUILD" /\ Backend = "conda") =>
              /\ ~output.raised
              /\ output.args = <<"conda", "build">> \o SourceAndVariant
        /\ (input.command = "BUILD" /\ Backend = "mamba") =>
              /\ ~output.raised
              /\ output.args = <<"conda", "mambabuild">> \o SourceAndVariant

C19_Witness ==
    /\ Built
    /\ input.command = "BUILD"
    /\ Backend = "mamba"
    /\ output.args = <<"conda", "mambabuild", "-c", "my42channel", "-c", "test-forge",
                       "-m", "/specs/variants.yaml">>

\* C20 as stated: with a backend other than conda and mamba every verb fails
\* and no vector is returned.
C20_AsStated ==
    (Built /\ Backend \notin {"conda", "mamba"}) =>
        (output.raised /\ output.args = <<>>)

\* C20 (amended): with a backend other than conda and mamba, search and build
\* fail with an error and return no vector; render does not look at the
\* backend and returns its conda render vector.
C20_SearchAndBuildFail ==
    (Built /\ Backend \notin {"conda", "mamba"}) =>
        IF input.command = "RENDER"
        THEN ~output.raised /\ SubSeq(output.args, 1, 3) = <<"conda", "render", "--output">>
        ELSE output.raised /\ output.error = "ValueError" /\ output.args = <<>>

C20_Witness ==
    /\ Built
    /\ Backend = "boa"
    /\ input.command = "BUILD"
    /\ output.raised

----------------------------------------------------------------------------
(* parse_specs on its own: labels and upload channel *)

\* destination channels: plain, with a label, with a label after a label,
\* with the label text twice, and with text that is no label
ParseDestinations ==
    { "ch", "ch/label/test", "ch/label/x/label/y", "ch/label/test/label/test",
      "c/label/m/label/a/x/label/a", "ch/label/x_y", "ch/label/" }

InitParse ==
    /\ NoRun
    /\ input \in { [fn |-> "parse_specs", destination_channel |-> d, label |-> l,
                    token |-> t] :
                     d \in ParseDestinations,
                     l \in SeqsUpTo({"test", "main"}, MaxLabels),
                     t \in {"", "ohoh"} }
    /\ output = NoOutput

ParseSpecs ==
    /\ input.fn = "parse_specs"
    /\ output = NoOutput
    /\ output' = [fn |-> "parse_specs",
                  config |-> parse_specs(input.destination_channel, input.label,
                                         input.token)]
    /\ UNCHANGED <<input, run_vars>>

NextParse == ParseSpecs

SpecParse == InitParse /\ [][NextParse]_vars

\* parse_specs has been applied
Parsed == output # NoOutput /\ input.fn = "parse_specs"

\* where s ends in /label/<label>: the start of that suffix
LabelSuffixes(s) ==
    {p \in 1..(Len(s) - 7) :
        /\ SubSeq(s, p, p + 6) = "/label/"
        /\ \A k \in (p + 7)..Len(s) : SubSeq(s, k, k) \in LabelChars}

EndsInLabel(s) == LabelSuffixes(s) # {}

\* the label at the end of the destination channel
EmbeddedLabel ==
    LET d == input.destination_channel
        p == CHOOSE q \in LabelSuffixes(d) : TRUE
    IN SubSeq(d, p + 7, Len(d))

Times(seq, x) == Cardinality({i \in 1..Len(seq) : seq[i] = x})

OneLabelSegment ==
    Cardinality({p \in 1..(Len(input.destination_channel) - 6) :
                    SubSeq(input.destination_channel, p, p + 6) = "/label/"}) <= 1

----------------------------------------------------------------------------
(* The run: recipe specs, working directory and environment *)

\* C22 as stated: processing a recipe leaves every field of its recipe spec,
\* the values of its environment overrides included, as loaded.
C22_AsStated == [][selected_recipe_specs' = selected_recipe_specs]_vars

\* the repository directory of recipe i inside the repo cache
RepoDir(i) ==
    "/specs/repo-cache/"
        \o SubSeq(selected_recipe_specs[i].recipe_repo,
                  Len("https://github.com/ilastik/") + 1,
                  Len(selected_recipe_specs[i].recipe_repo) - Len(".git"))

\* C23: render and build of every recipe run in the recipe's repository
\* directory inside the repo cache, the checkout is entered in the cache
\* root and returns there, whatever the recipes before it left behind.
C23_WorkingDirectory ==
    \A k \in 1..Len(calls) :
        LET c == calls[k]
        IN /\ c.tool \in {"render", "build"} => c.cwd = RepoDir(c.spec)
           /\ c.tool = "checkout" => c.cwd = "/specs/repo-cache"
           /\ (c.tool = "chdir" /\ c.args = <<"repo_dir">>) => c.cwd = "/specs/repo-cache"

C23_Witness ==
    /\ Len(calls) >= 1
    /\ calls[Len(calls)].tool = "build"
    /\ calls[Len(calls)].spec = 2
    /\ calls[Len(calls)].cwd = "/specs/repo-cache/b-recipe"
    /\ Len(result.built) = 1
    /\ selected_recipe_specs[1].name = "a"

\* the environment recipe i must be rendered and built in
ExpectedEnvironment(i) ==
    LET overrides == selected_recipe_specs[i].environment
    IN [k \in {"PATH", "CPU_COUNT"} \cup DOMAIN overrides |->
          IF k \in DOMAIN overrides
          THEN [type |-> "str", repr |-> overrides[k].repr]
          ELSE IF k = "PATH" THEN [type |-> "str", repr |-> "/usr/bin"]
          ELSE [type |-> "str", repr |-> "1"]]

\* C24: render and build of every recipe get the environment of the process
\* with the recipe's own overrides on top and nothing else; the environment
\* of the process stays as it was.
C24_EnvironmentPerRecipe ==
    /\ pc # "idle" => environ = AmbientEnviron
    /\ \A k \in 1..Len(calls) :
          calls[k].tool \in {"render", "build"}
              => calls[k].env = ExpectedEnvironment(calls[k].spec)

C24_Witness ==
    /\ Len(selected_recipe_specs) = 2
    /\ selected_recipe_specs[1].name = "a"
    /\ selected_recipe_specs[2].name = "b"
    /\ Len(calls) >= 1
    /\ calls[Len(calls)].tool = "render"
    /\ calls[Len(calls)].spec = 2
    /\ calls[Len(calls)].env = AmbientEnviron
    /\ \E k \in 1..Len(calls) :
          /\ calls[k].tool = "build"
          /\ calls[k].spec = 1
          /\ calls[k].env["CPU_COUNT"].repr = "4"
          /\ "EXTRA" \in DOMAIN calls[k].env

====
